---- MODULE Spec2Model ----
(***************************************************************************)
(* Model of the transportation-problem solver (P4UL-M/transporteur):       *)
(*   tools/graph.rs   Graph<T>  (connectivity, cycles, k-edge augmentation)*)
(*   tools/table.rs   Table<T>  (north-west corner, potentials, ...)       *)
(*   tools/matrix.rs  Matrix<T> (solve: Gaussian elimination)              *)
(*   test.rs          the benchmark driver (nwc -> graph -> augment loop)  *)
(*                                                                         *)
(* Vertex labels are Rust Strings; they are modelled as sequences of       *)
(* one-character strings so that format!("S{}", i) and strip_prefix("S")   *)
(* followed by parse::<usize>() are computed, not assumed.                 *)
(***************************************************************************)
EXTENDS Integers, Sequences, FiniteSets, TLC

VARIABLES
    vertices,   \* Graph.vertices : Vec<String>
    edges,      \* Graph.edges    : Vec<Edge<T>>
    table,      \* the Table value (or NoTable before construction)
    nwc,        \* locals of north_west_corner: cursors and working copies
    solver,     \* locals of Matrix::solve: augmented matrix, cursors, solution
    pc,         \* position of the driver
    call        \* the last operation called, its arguments and its outcome

vars == <<vertices, edges, table, nwc, solver, pc, call>>

----------------------------------------------------------------------------
(* Bounds of the model *)

MaxVertices == 3
MaxEdges == 3
MaxWeight == 2
MaxCands == 2
MaxK == 2
MaxDim == 2
MaxCost == 2
MaxQty == 2
MaxSolveDim == 2
MaxEntry == 2
MaxX == 1
MaxCycVertices == 4
MaxCycEdges == 4

----------------------------------------------------------------------------
(* Generic helpers *)

Range(s) == {s[i] : i \in 1..Len(s)}

Front(s) == SubSeq(s, 1, Len(s) - 1)

Last(s) == s[Len(s)]

BoundedSeq(S, n) == UNION {[1..l -> S] : l \in 0..n}

Abs(x) == IF x < 0 THEN -x ELSE x

Min(a, b) == IF a <= b THEN a ELSE b

----------------------------------------------------------------------------
(* graph.rs : Edge *)

Edge(from, to, weight) == [from |-> from, to |-> to, weight |-> weight]

\* impl PartialEq for Edge: undirected, weight ignored
EdgeEq(a, b) ==
    \/ (a.from = b.from /\ a.to = b.to)
    \/ (a.from = b.to /\ a.to = b.from)

\* Vec<Edge>::contains with an equality that compares from with from and to
\* with to only
ContainsDirected(es, e) ==
    \E i \in 1..Len(es) : es[i].from = e.from /\ es[i].to = e.to

\* Vec<Edge>::contains, which uses PartialEq
Contains(es, e) == \E i \in 1..Len(es) : EdgeEq(es[i], e)

----------------------------------------------------------------------------
(* graph.rs : add_edges *)

\* for edge in edges { ... }: from edge number idx of the list on; a panic
\* leaves the edges pushed before it in the graph
RECURSIVE add_edges(_, _, _)
add_edges(es, new, idx) ==
    IF idx > Len(new) THEN [res |-> "Ok", edges |-> es]
    ELSE IF Contains(es, new[idx])
    THEN [res |-> "Panic: Edge already exists", edges |-> es]
    ELSE add_edges(Append(es, new[idx]), new, idx + 1)

----------------------------------------------------------------------------
(* graph.rs : is_connected *)

\* the for loop over self.edges, pushing the neighbours of node
RECURSIVE PushNeighbours(_, _, _, _)
PushNeighbours(es, node, stack, idx) ==
    IF idx > Len(es) THEN stack
    ELSE LET e == es[idx] IN
         IF e.from = node THEN PushNeighbours(es, node, Append(stack, e.to), idx + 1)
         ELSE IF e.to = node THEN PushNeighbours(es, node, Append(stack, e.from), idx + 1)
         ELSE PushNeighbours(es, node, stack, idx + 1)

\* while let Some(node) = stack.pop()
RECURSIVE ConnectedLoop(_, _, _)
ConnectedLoop(es, stack, visited) ==
    IF stack = <<>> THEN visited
    ELSE LET node == Last(stack)
             rest == Front(stack)
         IN  IF node \in visited THEN ConnectedLoop(es, rest, visited)
             ELSE ConnectedLoop(es, PushNeighbours(es, node, rest, 1), visited \cup {node})

is_connected(vs, es) ==
    IF vs = <<>> THEN FALSE
    ELSE Cardinality(ConnectedLoop(es, <<vs[1]>>, {})) = Len(vs)

----------------------------------------------------------------------------
(* graph.rs : is_cyclic *)

NoParent == [some |-> FALSE, val |-> <<>>]

SomeParent(v) == [some |-> TRUE, val |-> v]

\* the for loop over self.edges inside the while loop: both ifs are tried for
\* every edge, and `continue` skips the rest of the edge's iteration
RECURSIVE CyclicPush(_, _, _, _, _)
CyclicPush(es, current, parent, stack, idx) ==
    IF idx > Len(es) THEN stack
    ELSE LET e == es[idx]
             skipFrom == e.from = current /\ parent.some /\ e.to = parent.val
             s1 == IF e.from = current /\ ~skipFrom
                   THEN Append(stack, [node |-> e.to, parent |-> SomeParent(current)])
                   ELSE stack
             skipTo == e.to = current /\ parent.some /\ e.from = parent.val
             s2 == IF ~skipFrom /\ e.to = current /\ ~skipTo
                   THEN Append(s1, [node |-> e.from, parent |-> SomeParent(current)])
                   ELSE s1
         IN  CyclicPush(es, current, parent, s2, idx + 1)

\* while let Some((current, parent)) = stack.pop_back()
RECURSIVE CyclicLoop(_, _, _)
CyclicLoop(es, stack, visited) ==
    IF stack = <<>> THEN [found |-> FALSE, visited |-> visited]
    ELSE LET top == Last(stack)
             rest == Front(stack)
         IN  IF top.node \in visited THEN [found |-> TRUE, visited |-> visited]
             ELSE CyclicLoop(es, CyclicPush(es, top.node, top.parent, rest, 1),
                             visited \cup {top.node})

\* for vertex in &self.vertices
RECURSIVE CyclicOuter(_, _, _, _)
CyclicOuter(vs, es, idx, visited) ==
    IF idx > Len(vs) THEN FALSE
    ELSE IF vs[idx] \in visited THEN CyclicOuter(vs, es, idx + 1, visited)
    ELSE LET r == CyclicLoop(es, <<[node |-> vs[idx], parent |-> NoParent]>>, visited)
         IN  IF r.found THEN TRUE ELSE CyclicOuter(vs, es, idx + 1, r.visited)

\* is_cyclic with the traversal started from the first vertex only
is_cyclic_first_only(vs, es) ==
    vs # <<>> /\ CyclicLoop(es, <<[node |-> vs[1], parent |-> NoParent]>>, {}).found

is_cyclic(vs, es) == CyclicOuter(vs, es, 1, {})

\* is_tree without the test for cycles
is_tree_connected_only(vs, es) == is_connected(vs, es)

is_tree(vs, es) == is_connected(vs, es) /\ ~is_cyclic(vs, es)

----------------------------------------------------------------------------
(* graph.rs : find_cycle *)

NoCycle(visited) == [found |-> FALSE, cycle |-> <<>>, visited |-> visited]

RECURSIVE dfs(_, _, _, _)
RECURSIVE dfsEdges(_, _, _, _, _)

\* the for loop of dfs over graph.edges, from edge number idx on
dfsEdges(es, node, parent, visited, idx) ==
    IF idx > Len(es) THEN NoCycle(visited)
    ELSE LET e == es[idx] IN
         IF e.from = node \/ e.to = node
         THEN LET next_node == IF e.from = node THEN e.to ELSE e.from IN
              IF next_node = parent THEN dfsEdges(es, node, parent, visited, idx + 1)
              ELSE IF next_node \notin visited
              THEN LET r == dfs(es, next_node, node, visited) IN
                   IF r.found
                   THEN [found |-> TRUE, cycle |-> Append(r.cycle, e), visited |-> r.visited]
                   ELSE dfsEdges(es, node, parent, r.visited, idx + 1)
              ELSE dfsEdges(es, node, parent, visited, idx + 1)
         ELSE dfsEdges(es, node, parent, visited, idx + 1)

dfs(es, node, parent, visited) == dfsEdges(es, node, parent, visited \cup {node}, 1)

\* Option<Vec<Edge>>: found = FALSE is None
find_cycle(vs, es) ==
    IF vs = <<>> THEN NoCycle({})
    ELSE dfs(es, vs[1], <<>>, {})

----------------------------------------------------------------------------
(* graph.rs : k_edge_augmentation *)

\* edges.shuffle(&mut rng): the seed is the wall-clock time, so the order is
\* any permutation p of the candidate list
Shuffle(cands, p) == [i \in 1..Len(cands) |-> cands[p[i]]]

Perms(n) == {p \in [1..n -> 1..n] : \A i, j \in 1..n : p[i] = p[j] => i = j}

\* insertion of e behind every element that is not heavier than it
RECURSIVE InsertByWeight(_, _)
InsertByWeight(sorted, e) ==
    IF sorted = <<>> THEN <<e>>
    ELSE IF Last(sorted).weight <= e.weight THEN Append(sorted, e)
    ELSE Append(InsertByWeight(Front(sorted), e), Last(sorted))

\* edges.sort_by(|a, b| a.weight.partial_cmp(&b.weight).unwrap()): a stable sort
RECURSIVE SortByWeight(_)
SortByWeight(s) ==
    IF s = <<>> THEN <<>>
    ELSE InsertByWeight(SortByWeight(Front(s)), Last(s))

\* AugLoop with step 4 (the removal of an edge that closes a cycle) left out
RECURSIVE AugLoopNoRollback(_, _, _, _, _, _)
AugLoopNoRollback(vs, es, order, idx, k, bld) ==
    IF idx > Len(order)
    THEN [edges |-> es, k |-> k, examined |-> idx - 1, panic |-> FALSE]
    ELSE LET e == order[idx]
             added == Append(es, Edge(e.from, e.to, e.weight))
         IN  IF Contains(es, e) THEN AugLoopNoRollback(vs, es, order, idx + 1, k, bld)
             ELSE IF is_cyclic(vs, added)
             THEN AugLoopNoRollback(vs, added, order, idx + 1, k, bld)
             ELSE IF k = 0 /\ bld = "debug"
             THEN [edges |-> added, k |-> k, examined |-> idx, panic |-> TRUE]
             ELSE IF k - 1 = 0
             THEN [edges |-> added, k |-> 0, examined |-> idx, panic |-> FALSE]
             ELSE AugLoopNoRollback(vs, added, order, idx + 1, k - 1, bld)

\* The counter k is a usize.  A value k < 0 of the model stands for the
\* wrapped value 2^64 + k, which is nonzero and never comes back to 0 within
\* the candidate lists of the model.
\* for edge in edges { ... }: the loop from candidate number idx on
RECURSIVE AugLoop(_, _, _, _, _, _)
AugLoop(vs, es, order, idx, k, bld) ==
    IF idx > Len(order)
    THEN [edges |-> es, k |-> k, examined |-> idx - 1, panic |-> FALSE]
    ELSE LET e == order[idx]
             added == Append(es, Edge(e.from, e.to, e.weight))
         IN  IF Contains(es, e) THEN AugLoop(vs, es, order, idx + 1, k, bld)
             ELSE IF is_cyclic(vs, added)
             THEN AugLoop(vs, Front(added), order, idx + 1, k, bld)
             ELSE IF k = 0 /\ bld = "debug"
             THEN [edges |-> added, k |-> k, examined |-> idx, panic |-> TRUE]
             ELSE IF k - 1 = 0
             THEN [edges |-> added, k |-> 0, examined |-> idx, panic |-> FALSE]
             ELSE AugLoop(vs, added, order, idx + 1, k - 1, bld)

\* k_edge_augmentation with the two checks of step 0 in the other order
k_edge_augmentation_cycle_first(vs, es, k, cands, p, bld) ==
    IF is_cyclic(vs, es)
    THEN [res |-> "ContainsCycle", edges |-> es, examined |-> 0]
    ELSE IF is_connected(vs, es)
    THEN [res |-> "AlreadyConnected", edges |-> es, examined |-> 0]
    ELSE LET r == AugLoop(vs, es, SortByWeight(Shuffle(cands, p)), 1, k, bld) IN
         [res |-> IF r.panic THEN "PanicOverflow"
                  ELSE IF r.k # 0 THEN "InsufficientEdges"
                  ELSE "Ok",
          edges |-> r.edges, examined |-> r.examined]

k_edge_augmentation(vs, es, k, cands, p, bld) ==
    IF is_connected(vs, es)
    THEN [res |-> "AlreadyConnected", edges |-> es, examined |-> 0]
    ELSE IF is_cyclic(vs, es)
    THEN [res |-> "ContainsCycle", edges |-> es, examined |-> 0]
    ELSE LET r == AugLoop(vs, es, SortByWeight(Shuffle(cands, p)), 1, k, bld) IN
         [res |-> IF r.panic THEN "PanicOverflow"
                  ELSE IF r.k # 0 THEN "InsufficientEdges"
                  ELSE "Ok",
          edges |-> r.edges, examined |-> r.examined]

----------------------------------------------------------------------------
(* The record of the last call *)

NoTable == [some |-> FALSE]

NoNwc == [i |-> 0, j |-> 0, supply |-> <<>>, demand |-> <<>>]

NoSolver == [A |-> <<>>, b |-> <<>>, xstar |-> <<>>, st |-> [pc |-> "idle"]]

Call(op, res) ==
    [op |-> op, res |-> res, k |-> 0, cands |-> <<>>, preV |-> <<>>, preE |-> <<>>,
     examined |-> 0, cycle |-> <<>>, u |-> <<>>, v |-> <<>>, mc |-> <<>>, node |-> <<>>]

NoCall == Call("none", "none")

----------------------------------------------------------------------------
(* The Graph API driven by a client *)

LabelSeq == <<"A", "B", "C", "D", "E", "F">>

\* Labels are only compared for equality, so the client names its vertices
\* in the order of LabelSeq; add_node is called with a label it already used
\* or with the next fresh one.
NextLabels == {<<LabelSeq[i]>> : i \in 1..Min(Len(vertices) + 1, MaxVertices)}

Builds == {"debug", "release"}

\* the weight of an edge of the graph is never read by graph.rs
GraphWeights == {1}

CandWeights == 1..MaxWeight

GraphInit ==
    /\ vertices = <<>>
    /\ edges = <<>>
    /\ table = NoTable
    /\ nwc = NoNwc
    /\ solver = NoSolver
    /\ pc = "run"
    /\ call = NoCall

\* graph.rs add_node
AddNode(node) ==
    /\ pc = "run"
    /\ IF node \in Range(vertices)
       THEN /\ pc' = "panicked"
            /\ call' = [Call("add_node", "Panic: Node already exists") EXCEPT
                          !.node = node, !.preV = vertices, !.preE = edges]
            /\ UNCHANGED vertices
       ELSE /\ vertices' = Append(vertices, node)
            /\ call' = [Call("add_node", "Ok") EXCEPT
                          !.node = node, !.preV = vertices, !.preE = edges]
            /\ pc' = "returned"
    /\ UNCHANGED <<edges, table, nwc, solver>>

\* graph.rs add_edge
AddEdge(from, to, weight) ==
    /\ pc = "run"
    /\ IF Contains(edges, Edge(from, to, weight))
       THEN /\ pc' = "panicked"
            /\ call' = [Call("add_edge", "Panic: Edge already exists") EXCEPT
                          !.cands = <<Edge(from, to, weight)>>,
                          !.preV = vertices, !.preE = edges]
            /\ UNCHANGED edges
       ELSE /\ edges' = Append(edges, Edge(from, to, weight))
            /\ call' = [Call("add_edge", "Ok") EXCEPT
                          !.cands = <<Edge(from, to, weight)>>,
                          !.preV = vertices, !.preE = edges]
            /\ pc' = "returned"
    /\ UNCHANGED <<vertices, table, nwc, solver>>

\* graph.rs add_edges
AddEdges(new) ==
    /\ pc = "run"
    /\ \E r \in {add_edges(edges, new, 1)} :
       /\ edges' = r.edges
       /\ call' = [Call("add_edges", r.res) EXCEPT
                     !.cands = new, !.preV = vertices, !.preE = edges]
       /\ pc' = IF r.res = "Ok" THEN "returned" ELSE "panicked"
    /\ UNCHANGED <<vertices, table, nwc, solver>>

\* graph.rs k_edge_augmentation, called with k and the candidate list cands;
\* p is the order the shuffle produces, bld the build profile
\* ("debug": overflow checks on, "release": wrapping arithmetic)
KEdgeAugmentation(k, cands, p, bld) ==
    /\ pc = "run"
    /\ \E r \in {k_edge_augmentation(vertices, edges, k, cands, p, bld)} :
       /\ edges' = r.edges
       /\ pc' = IF r.res = "PanicOverflow" THEN "panicked" ELSE "returned"
       /\ call' = [Call("k_edge_augmentation", r.res) EXCEPT
                     !.k = k, !.cands = cands, !.preV = vertices, !.preE = edges,
                     !.examined = r.examined]
    /\ UNCHANGED <<vertices, table, nwc, solver>>

\* graph.rs find_cycle
FindCycle ==
    /\ pc = "run"
    /\ LET r == find_cycle(vertices, edges) IN
       call' = [Call("find_cycle", IF r.found THEN "Some" ELSE "None") EXCEPT
                  !.cycle = r.cycle, !.preV = vertices, !.preE = edges]
    /\ pc' = "returned"
    /\ UNCHANGED <<vertices, edges, table, nwc, solver>>

\* the client goes on to its next call
Return ==
    /\ pc = "returned"
    /\ pc' = "run"
    /\ call' = NoCall
    /\ UNCHANGED <<vertices, edges, table, nwc, solver>>

CandPool == {Edge(f, t, w) : f \in Range(vertices), t \in Range(vertices), w \in CandWeights}

EdgePool == {Edge(f, t, w) : f \in Range(vertices), t \in Range(vertices), w \in GraphWeights}

GraphNext ==
    \/ \E node \in NextLabels : AddNode(node)
    \/ /\ Len(edges) < MaxEdges
       /\ \E from \in Range(vertices), to \in Range(vertices), w \in GraphWeights :
             AddEdge(from, to, w)
    \/ /\ pc = "run"
       /\ \E k \in 0..MaxK, cands \in BoundedSeq(CandPool, MaxCands) :
             \E p \in Perms(Len(cands)), bld \in Builds : KEdgeAugmentation(k, cands, p, bld)
    \/ /\ pc = "run"
       /\ \E new \in BoundedSeq(EdgePool, MaxCands) :
             Len(edges) + Len(new) <= MaxEdges /\ AddEdges(new)
    \/ FindCycle
    \/ Return

Spec == GraphInit /\ [][GraphNext]_vars

----------------------------------------------------------------------------
(* Graph theory, independent of the traversals of graph.rs *)

Nodes(vs, es) == Range(vs) \cup {es[i].from : i \in 1..Len(es)} \cup {es[i].to : i \in 1..Len(es)}

Neighbours(es, S) ==
    {es[i].to : i \in {n \in 1..Len(es) : es[n].from \in S}}
        \cup {es[i].from : i \in {n \in 1..Len(es) : es[n].to \in S}}

RECURSIVE Closure(_, _)
Closure(es, S) ==
    LET T == S \cup Neighbours(es, S) IN
    IF T = S THEN S ELSE Closure(es, T)

ComponentsOf(V, es) == {Closure(es, {v}) : v \in V}

Components(vs, es) == ComponentsOf(Nodes(vs, es), es)

Connected(vs, es) == vs # <<>> /\ Cardinality(Components(vs, es)) = 1

\* a graph (loops and parallel edges allowed) is a forest iff |E| = |V| - #components
Acyclic(vs, es) == Len(es) = Cardinality(Nodes(vs, es)) - Cardinality(Components(vs, es))

NoDuplicateEdge(es) == \A i, j \in 1..Len(es) : i # j => ~EdgeEq(es[i], es[j])

NoLoop(es) == \A i \in 1..Len(es) : es[i].from # es[i].to

\* how many of the candidates can be added one after another to the forest es
\* without closing a cycle or repeating an edge: the rank the candidates add
Addable(vs, es, cands) ==
    Cardinality(ComponentsOf(Nodes(vs, es \o cands), es))
        - Cardinality(ComponentsOf(Nodes(vs, es \o cands), es \o cands))

CalledAug == pc # "run" /\ call.op = "k_edge_augmentation"

----------------------------------------------------------------------------
(* Claims about the Graph, checked under Spec *)

\* C4: when k_edge_augmentation(k, candidates) returns success on a
\* disconnected acyclic graph, the edge list is the previous list followed by
\* exactly k new edges, each new edge is one of the candidates, no two edges of
\* the graph are equal as undirected pairs, and the graph is acyclic; for every
\* order the shuffle can produce.
Thm_C4 ==
    (CalledAug /\ call.res = "Ok" /\ ~Connected(call.preV, call.preE)
        /\ Acyclic(call.preV, call.preE))
    => /\ Len(edges) = Len(call.preE) + call.k
       /\ SubSeq(edges, 1, Len(call.preE)) = call.preE
       /\ \A i \in (Len(call.preE) + 1)..Len(edges) : edges[i] \in Range(call.cands)
       /\ NoDuplicateEdge(edges)
       /\ Acyclic(vertices, edges)

\* a successful call that had to pass over a candidate (a repeated edge or one
\* that closes a cycle) before it had added its k edges
Wit_C4 ==
    /\ CalledAug /\ call.res = "Ok" /\ call.k >= 1
    /\ call.examined > call.k
    /\ Len(edges) = Len(call.preE) + call.k

\* C7 (as claimed): on a disconnected acyclic graph, for every k >= 0, the call
\* returns InsufficientEdges iff fewer than k candidates can be added without
\* closing a cycle or repeating an edge; otherwise it returns success after
\* exactly k additions.
Cex_C7 ==
    (CalledAug /\ ~Connected(call.preV, call.preE) /\ Acyclic(call.preV, call.preE))
    => LET a == Addable(call.preV, call.preE, call.cands) IN
       /\ (call.res = "InsufficientEdges") <=> (a < call.k)
       /\ (a >= call.k) => (call.res = "Ok" /\ Len(edges) = Len(call.preE) + call.k)

\* C8: on a connected graph (cyclic or not) the call returns AlreadyConnected,
\* on a disconnected graph with a cycle it returns ContainsCycle; in both cases
\* no candidate is examined and vertices and edges are unchanged.
Thm_C8 ==
    CalledAug =>
      /\ Connected(call.preV, call.preE)
            => (call.res = "AlreadyConnected" /\ call.examined = 0
                  /\ edges = call.preE /\ vertices = call.preV)
      /\ (~Connected(call.preV, call.preE) /\ ~Acyclic(call.preV, call.preE))
            => (call.res = "ContainsCycle" /\ call.examined = 0
                  /\ edges = call.preE /\ vertices = call.preV)

\* a call with candidates on a disconnected graph that contains a cycle
Wit_C8 ==
    /\ CalledAug /\ call.cands # <<>> /\ call.k >= 1
    /\ ~Connected(call.preV, call.preE) /\ ~Acyclic(call.preV, call.preE)
    /\ call.res = "ContainsCycle"

\* In a cycle every vertex met by the edges is met by exactly two edge ends
\* (a self-loop gives its vertex both ends), and the edges hang together.
IsCycle(es) ==
    /\ es # <<>>
    /\ NoDuplicateEdge(es)
    /\ Cardinality(Components(<<>>, es)) = 1
    /\ \A v \in Nodes(<<>>, es) :
          Cardinality({i \in 1..Len(es) : es[i].from = v})
              + Cardinality({i \in 1..Len(es) : es[i].to = v}) = 2

\* C10 (as claimed, for graphs without self-loops): find_cycle returns a
\* non-empty set of edges of the graph forming one cycle whenever the graph
\* contains a cycle, and nothing when the graph is acyclic.
Cex_C10 ==
    (pc # "run" /\ call.op = "find_cycle" /\ NoLoop(call.preE))
    => /\ Acyclic(call.preV, call.preE) => call.res = "None"
       /\ ~Acyclic(call.preV, call.preE)
            => /\ call.res = "Some"
               /\ Range(call.cycle) \subseteq Range(call.preE)
               /\ IsCycle(call.cycle)

----------------------------------------------------------------------------
(* matrix.rs : Matrix<T>; data is a sequence of rows *)

\* Matrix::new_empty(n, m): the n x m grid of Default::default()
new_empty(n, m) == [data |-> [i \in 1..n |-> [j \in 1..m |-> 0]], rows |-> n, cols |-> m]

\* Matrix::new(data)
MatrixNew(data) == [data |-> data, rows |-> Len(data), cols |-> Len(data[1])]

RECURSIVE SumSeq(_)
SumSeq(s) == IF s = <<>> THEN 0 ELSE SumSeq(Front(s)) + Last(s)

----------------------------------------------------------------------------
(* table.rs : labels of the transportation graph *)

DigitChars == <<"0", "1", "2", "3", "4", "5", "6", "7", "8", "9">>

\* the decimal digits of a usize, as format!("{}", x) writes them
RECURSIVE ToDigits(_)
ToDigits(x) ==
    IF x < 10 THEN <<DigitChars[x + 1]>>
    ELSE Append(ToDigits(x \div 10), DigitChars[(x % 10) + 1])

\* format!("S{}", i + 1) and format!("D{}", j + 1), for the 0-based i and j
SLabel(i) == <<"S">> \o ToDigits(i + 1)

DLabel(j) == <<"D">> \o ToDigits(j + 1)

NoneUsize == [some |-> FALSE, val |-> 0]

IsDigit(c) == \E d \in 1..10 : DigitChars[d] = c

DigitVal(c) == (CHOOSE d \in 1..10 : DigitChars[d] = c) - 1

\* str::parse::<usize>().ok() on a sequence of digits
RECURSIVE ParseUsize(_)
ParseUsize(str) ==
    IF str = <<>> \/ ~IsDigit(Last(str)) THEN NoneUsize
    ELSE IF Len(str) = 1 THEN [some |-> TRUE, val |-> DigitVal(str[1])]
    ELSE LET r == ParseUsize(Front(str)) IN
         IF r.some THEN [some |-> TRUE, val |-> 10 * r.val + DigitVal(Last(str))]
         ELSE NoneUsize

\* label.strip_prefix(prefix).and_then(|s| s.parse::<usize>().ok())
StripParse(label, prefix) ==
    IF Len(label) >= 1 /\ label[1] = prefix THEN ParseUsize(Tail(label)) ELSE NoneUsize

----------------------------------------------------------------------------
(* table.rs : construction *)

\* Table::new: the four assert_eq! on the dimensions, then the struct
TableNewFn(costs, transport, supply, demand) ==
    IF \/ costs.rows # Len(supply)
       \/ costs.cols # Len(demand)
       \/ transport.rows # Len(supply)
       \/ transport.cols # Len(demand)
    THEN [res |-> "Panic: assertion failed (dimensions)", table |-> NoTable]
    ELSE [res |-> "Ok",
          table |-> [some |-> TRUE, costs |-> costs, transport |-> transport,
                     supply |-> supply, demand |-> demand,
                     n |-> Len(supply), m |-> Len(demand)]]

\* Table::from_file on a file given as its lines, each line as the values of
\* its whitespace-separated tokens: line 1 is n m, then n lines of m costs
\* and a supply, then the line of the m demands
from_file(lines) ==
    IF Len(lines) < 1 \/ Len(lines[1]) < 2
    THEN [res |-> "Panic: unwrap on None", table |-> NoTable]
    ELSE LET n == lines[1][1]
             m == lines[1][2]
         IN  IF \/ Len(lines) < n + 2
                \/ \E i \in 1..n : Len(lines[i + 1]) < m + 1
                \/ Len(lines[n + 2]) < m
             THEN [res |-> "Panic: unwrap on None", table |-> NoTable]
             ELSE LET costs == [new_empty(n, m) EXCEPT
                                  !.data = [i \in 1..n |-> [j \in 1..m |-> lines[i + 1][j]]]]
                      supply == [i \in 1..n |-> lines[i + 1][m + 1]]
                      demand == [j \in 1..m |-> lines[n + 2][j]]
                  IN  IF Len(lines) > n + 2
                      THEN [res |-> "Panic: assertion failed (trailing lines)", table |-> NoTable]
                      ELSE IF SumSeq(supply) # SumSeq(demand)
                      THEN [res |-> "Panic: Supply and demand are not balanced",
                            table |-> NoTable]
                      ELSE TableNewFn(costs, new_empty(n, m), supply, demand)

----------------------------------------------------------------------------
(* table.rs : north_west_corner, get_graph, get_unused_edges *)

\* lines 152-155: the cursors and the working copies
NwcBegin(t) == [i |-> 0, j |-> 0, supply |-> t.supply, demand |-> t.demand]

\* the loop condition, line 156
NwcGuard(t, c) == c.i < t.n /\ c.j < t.m

\* NwcIter allocating the whole remaining supply instead of the minimum
NwcIterNoMin(t, c) ==
    LET min == c.supply[c.i + 1]
        supply == [c.supply EXCEPT ![c.i + 1] = @ - min]
        demand == [c.demand EXCEPT ![c.j + 1] = @ - min]
    IN  [transport |-> [t.transport EXCEPT !.data[c.i + 1][c.j + 1] = min],
         locals |-> [i |-> IF supply[c.i + 1] = 0 THEN c.i + 1 ELSE c.i,
                     j |-> IF demand[c.j + 1] = 0 THEN c.j + 1 ELSE c.j,
                     supply |-> supply, demand |-> demand]]

\* NwcIter with the second test made an else branch of the first: a cursor
\* moves alone
NwcIterElse(t, c) ==
    LET min == Min(c.supply[c.i + 1], c.demand[c.j + 1])
        supply == [c.supply EXCEPT ![c.i + 1] = @ - min]
        demand == [c.demand EXCEPT ![c.j + 1] = @ - min]
    IN  [transport |-> [t.transport EXCEPT !.data[c.i + 1][c.j + 1] = min],
         locals |-> [i |-> IF supply[c.i + 1] = 0 THEN c.i + 1 ELSE c.i,
                     j |-> IF supply[c.i + 1] # 0 /\ demand[c.j + 1] = 0
                           THEN c.j + 1 ELSE c.j,
                     supply |-> supply, demand |-> demand]]

\* lines 157-166, one iteration: the new transport matrix and the new locals
NwcIter(t, c) ==
    LET min == Min(c.supply[c.i + 1], c.demand[c.j + 1])
        supply == [c.supply EXCEPT ![c.i + 1] = @ - min]
        demand == [c.demand EXCEPT ![c.j + 1] = @ - min]
    IN  [transport |-> [t.transport EXCEPT !.data[c.i + 1][c.j + 1] = min],
         locals |-> [i |-> IF supply[c.i + 1] = 0 THEN c.i + 1 ELSE c.i,
                     j |-> IF demand[c.j + 1] = 0 THEN c.j + 1 ELSE c.j,
                     supply |-> supply, demand |-> demand]]

\* the row-major scan of get_graph and get_unused_edges over the cells from
\* number cell on, keeping the cells whose transport is (not) zero
RECURSIVE ScanCells(_, _, _, _)
ScanCells(t, cell, used, acc) ==
    IF cell >= t.n * t.m THEN acc
    ELSE LET i == cell \div t.m
             j == cell % t.m
             x == t.transport.data[i + 1][j + 1]
         IN  IF used /\ x # 0
             THEN ScanCells(t, cell + 1, used, Append(acc, Edge(SLabel(i), DLabel(j), x)))
             ELSE IF ~used /\ x = 0
             THEN ScanCells(t, cell + 1, used,
                            Append(acc, Edge(SLabel(i), DLabel(j), t.costs.data[i + 1][j + 1])))
             ELSE ScanCells(t, cell + 1, used, acc)

\* Table::get_graph: S1..Sn, then D1..Dm, then an edge per nonzero cell
get_graph(t) ==
    [vertices |-> [x \in 1..(t.n + t.m) |-> IF x <= t.n THEN SLabel(x - 1) ELSE DLabel(x - t.n - 1)],
     edges |-> ScanCells(t, 0, TRUE, <<>>)]

\* get_unused_edges returning the cells in use instead of the unused ones
get_unused_edges_used(t) == ScanCells(t, 0, TRUE, <<>>)

\* Table::get_unused_edges: an edge per zero cell, weighted by its cost
get_unused_edges(t) == ScanCells(t, 0, FALSE, <<>>)

----------------------------------------------------------------------------
(* matrix.rs : solve.  Indices i, j, k, l are 0-based as in the code. *)

\* division of the signed integer type V: the quotient is truncated toward 0
TruncDiv(a, b) ==
    IF (a >= 0) = (b > 0) THEN Abs(a) \div Abs(b) ELSE -(Abs(a) \div Abs(b))

\* lines 123-132: the augmented matrix [A | b] and the cursors
SolveBegin(A, b) ==
    [data |-> [i \in 1..A.rows |-> Append(A.data[i], b[i])],
     rows |-> A.rows, cols |-> A.cols, i |-> 0, j |-> 0,
     pc |-> "eliminate", solution |-> <<>>]

\* the loop condition, line 133 (augmented has cols + 1 columns)
SolveGuard(st) == st.i < st.rows /\ st.j < st.cols + 1

\* lines 134-144: the search of the pivot row among the rows k >= from
RECURSIVE PivotSearch(_, _, _, _, _, _)
PivotSearch(data, rows, j, k, max, kmax) ==
    IF k >= rows THEN kmax
    ELSE LET x == data[k + 1][j + 1] IN
         IF x > max THEN PivotSearch(data, rows, j, k + 1, x, k)
         ELSE IF -x > max THEN PivotSearch(data, rows, j, k + 1, -x, k)
         ELSE PivotSearch(data, rows, j, k + 1, max, kmax)

\* let mut max = Default::default(); let mut kmax = i; for k in i + 1..rows
SelectPivot(st) == PivotSearch(st.data, st.rows, st.j, st.i + 1, 0, st.i)

\* lines 134-158, one iteration of the elimination loop
ElimStep(st) ==
    LET kmax == SelectPivot(st)
        sw == [st.data EXCEPT ![st.i + 1] = st.data[kmax + 1], ![kmax + 1] = st.data[st.i + 1]]
        pivot == sw[st.i + 1][st.j + 1]
    IN  IF pivot = 0 THEN [st EXCEPT !.data = sw, !.pc = "singular"]
        ELSE [st EXCEPT
                !.data = [k \in 1..st.rows |->
                            IF k - 1 > st.i
                            THEN LET factor == TruncDiv(sw[k][st.j + 1], pivot) IN
                                 [l \in 1..(st.cols + 1) |->
                                    IF l - 1 >= st.j
                                    THEN sw[k][l] - sw[st.i + 1][l] * factor
                                    ELSE sw[k][l]]
                            ELSE sw[k]],
                !.i = st.i + 1,
                !.j = st.j + 1]

\* lines 161-168: back-substitution for the rows i, i - 1, ..., 0
RECURSIVE BackSubstitute(_, _, _, _)
BackSubstitute(data, cols, i, solution) ==
    IF i < 0 THEN [res |-> "Ok", solution |-> solution]
    ELSE IF data[i + 1][i + 1] = 0
    THEN [res |-> "Panic: attempt to divide by zero", solution |-> solution]
    ELSE LET x == TruncDiv(data[i + 1][cols + 1], data[i + 1][i + 1]) IN
         BackSubstitute(
            [r \in 1..Len(data) |->
               IF r - 1 < i THEN [data[r] EXCEPT ![cols + 1] = @ - data[r][i + 1] * x]
               ELSE data[r]],
            cols, i - 1, [solution EXCEPT ![i + 1] = x])

SolveFinish(st) ==
    LET r == BackSubstitute(st.data, st.cols, st.cols - 1, [c \in 1..st.cols |-> 0]) IN
    [st EXCEPT !.pc = IF r.res = "Ok" THEN "solved" ELSE "divide_by_zero",
               !.solution = r.solution]

RECURSIVE SolveLoop(_)
SolveLoop(st) ==
    IF st.pc = "singular" THEN st
    ELSE IF SolveGuard(st) THEN SolveLoop(ElimStep(st))
    ELSE SolveFinish(st)

\* Matrix::solve as a whole
solve(A, b) ==
    LET st == SolveLoop(SolveBegin(A, b)) IN
    [res |-> IF st.pc = "solved" THEN "Ok"
             ELSE IF st.pc = "singular" THEN "Panic: Matrix is singular"
             ELSE "Panic: attempt to divide by zero",
     solution |-> st.solution]

----------------------------------------------------------------------------
(* table.rs : potentials, marginal_cost *)

\* FillSystem with the coefficient of v_j written as 1 instead of -1
RECURSIVE FillSystemPlus(_, _, _, _, _, _)
FillSystemPlus(t, es, idx, l, a, b) ==
    IF idx > Len(es) THEN [ok |-> TRUE, l |-> l, a |-> a, b |-> b]
    ELSE LET i == StripParse(es[idx].from, "S")
             j == StripParse(es[idx].to, "D")
         IN  IF i.some /\ j.some
             THEN IF \/ l >= t.n + t.m
                     \/ i.val < 1 \/ i.val > t.n
                     \/ j.val < 1 \/ j.val > t.m
                  THEN [ok |-> FALSE, l |-> l, a |-> a, b |-> b]
                  ELSE FillSystemPlus(t, es, idx + 1, l + 1,
                          [a EXCEPT !.data[l + 1][i.val] = 1,
                                    !.data[l + 1][t.n + j.val] = 1],
                          [b EXCEPT ![l + 1] = t.costs.data[i.val][j.val]])
             ELSE FillSystemPlus(t, es, idx + 1, l, a, b)

\* lines 275-290: one equation u_i - v_j = c per edge whose labels parse
RECURSIVE FillSystem(_, _, _, _, _, _)
FillSystem(t, es, idx, l, a, b) ==
    IF idx > Len(es) THEN [ok |-> TRUE, l |-> l, a |-> a, b |-> b]
    ELSE LET i == StripParse(es[idx].from, "S")
             j == StripParse(es[idx].to, "D")
         IN  IF i.some /\ j.some
             THEN IF \/ l >= t.n + t.m
                     \/ i.val < 1 \/ i.val > t.n
                     \/ j.val < 1 \/ j.val > t.m
                  THEN [ok |-> FALSE, l |-> l, a |-> a, b |-> b]
                  ELSE FillSystem(t, es, idx + 1, l + 1,
                          [a EXCEPT !.data[l + 1][i.val] = 1,
                                    !.data[l + 1][t.n + j.val] = -1],
                          [b EXCEPT ![l + 1] = t.costs.data[i.val][j.val]])
             ELSE FillSystem(t, es, idx + 1, l, a, b)

NoPotentials(res) == [res |-> res, u |-> <<>>, v |-> <<>>]

\* Table::potentials::<i64>
potentials(t, vs, es) ==
    IF ~is_tree(vs, es) THEN NoPotentials("Panic: The graph is not a tree")
    ELSE LET size == t.n + t.m
             f == FillSystem(t, es, 1, 0, new_empty(size, size), [x \in 1..size |-> 0])
         IN  IF ~f.ok \/ f.l >= size THEN NoPotentials("Panic: index out of bounds")
             ELSE LET a == [f.a EXCEPT !.data[f.l + 1][1] = 1]
                      b == [f.b EXCEPT ![f.l + 1] = 0]
                      r == solve(a, b)
                  IN  IF r.res # "Ok" THEN NoPotentials(r.res)
                      ELSE [res |-> "Ok",
                            u |-> [i \in 1..t.n |-> r.solution[i]],
                            v |-> [j \in 1..t.m |-> r.solution[t.n + j]]]

\* Table::marginal_cost::<i64>
marginal_cost(t, vs, es) ==
    LET p == potentials(t, vs, es) IN
    IF p.res # "Ok" THEN [res |-> p.res, mc |-> <<>>]
    ELSE [res |-> "Ok",
          mc |-> [i \in 1..t.n |-> [j \in 1..t.m |->
                    t.costs.data[i][j] - (p.u[i] - p.v[j])]]]

----------------------------------------------------------------------------
(* The Table API driven by a client: construction, then a graph over the   *)
(* table's vertices, then potentials and marginal costs                    *)

Dims == 1..MaxDim

Vectors(n, S) == [1..n -> S]

Grids(n, m, S) == [1..n -> [1..m -> S]]

CostGrids == UNION {Grids(n, m, 1..MaxCost) : n \in Dims, m \in Dims}

QtyVectors == UNION {Vectors(n, 0..MaxQty) : n \in Dims}

\* the text of a problem file, line by line
FileOf(costs, supply, demand, trailing) ==
    <<<<Len(supply), Len(demand)>>>>
        \o [i \in 1..Len(supply) |-> Append(costs[i], supply[i])]
        \o <<demand>>
        \o (IF trailing THEN <<<<0>>>> ELSE <<>>)

WellFormedFiles ==
    UNION {{FileOf(costs, supply, demand, trailing) :
               costs \in Grids(n, m, 1..MaxCost), supply \in Vectors(n, 0..MaxQty),
               demand \in Vectors(m, 0..MaxQty), trailing \in BOOLEAN} :
           n \in Dims, m \in Dims}

TableInit ==
    /\ vertices = <<>>
    /\ edges = <<>>
    /\ table = NoTable
    /\ nwc = NoNwc
    /\ solver = NoSolver
    /\ pc = "run"
    /\ call = NoCall

\* table.rs Table::new
TableNew(costs, transport, supply, demand) ==
    /\ pc = "run"
    /\ ~table.some
    /\ \E r \in {TableNewFn(costs, transport, supply, demand)} :
       /\ table' = r.table
       /\ call' = Call("new", r.res)
       /\ pc' = IF r.res = "Ok" THEN "returned" ELSE "panicked"
    /\ UNCHANGED <<vertices, edges, nwc, solver>>

\* table.rs Table::from_file
TableFromFile(lines) ==
    /\ pc = "run"
    /\ ~table.some
    /\ \E r \in {from_file(lines)} :
       /\ table' = r.table
       /\ call' = Call("from_file", r.res)
       /\ pc' = IF r.res = "Ok" THEN "returned" ELSE "panicked"
    /\ UNCHANGED <<vertices, edges, nwc, solver>>

\* table.rs Table::get_graph
TableGetGraph ==
    /\ pc = "run"
    /\ table.some
    /\ vertices = <<>>
    /\ vertices' = get_graph(table).vertices
    /\ edges' = get_graph(table).edges
    /\ call' = Call("get_graph", "Ok")
    /\ pc' = "returned"
    /\ UNCHANGED <<table, nwc, solver>>

\* table.rs Table::potentials::<i64>(&graph)
Potentials ==
    /\ pc = "run"
    /\ table.some
    /\ vertices # <<>>
    /\ \E r \in {potentials(table, vertices, edges)} :
       /\ call' = [Call("potentials", r.res) EXCEPT
                     !.u = r.u, !.v = r.v, !.preV = vertices, !.preE = edges]
       /\ pc' = IF r.res = "Ok" THEN "returned" ELSE "panicked"
    /\ UNCHANGED <<vertices, edges, table, nwc, solver>>

\* table.rs Table::marginal_cost::<i64>(&graph)
MarginalCost ==
    /\ pc = "run"
    /\ table.some
    /\ vertices # <<>>
    /\ \E r \in {marginal_cost(table, vertices, edges)} :
       /\ call' = [Call("marginal_cost", r.res) EXCEPT
                     !.mc = r.mc, !.preV = vertices, !.preE = edges]
       /\ pc' = IF r.res = "Ok" THEN "returned" ELSE "panicked"
    /\ UNCHANGED <<vertices, edges, table, nwc, solver>>

TableNext ==
    \/ /\ pc = "run" /\ ~table.some
       /\ \E costs \in CostGrids, n \in Dims, m \in Dims, supply \in QtyVectors,
             demand \in QtyVectors :
             TableNew(MatrixNew(costs), new_empty(n, m), supply, demand)
    \/ /\ pc = "run" /\ ~table.some
       /\ \E lines \in WellFormedFiles : TableFromFile(lines)
    \/ TableGetGraph
    \/ /\ table.some /\ vertices # <<>>
       /\ \E i \in 0..(table.n - 1), j \in 0..(table.m - 1), w \in GraphWeights :
             AddEdge(SLabel(i), DLabel(j), w)
    \/ Potentials
    \/ MarginalCost
    \/ Return

TableSpec == TableInit /\ [][TableNext]_vars

----------------------------------------------------------------------------
(* Claims about the Table, checked under TableSpec *)

\* the vertices S1..Sn, D1..Dm of the table's transportation graph
TableVertices(t) ==
    {<<"S">> \o ToDigits(i) : i \in 1..t.n} \cup {<<"D">> \o ToDigits(j) : j \in 1..t.m}

\* the 1-based cell (i, j) of the edge Si-Dj
CellOf(t, e) ==
    CHOOSE c \in (1..t.n) \X (1..t.m) :
        e.from = <<"S">> \o ToDigits(c[1]) /\ e.to = <<"D">> \o ToDigits(c[2])

\* a spanning tree over S1..Sn, D1..Dm whose edges run from an Si to a Dj
SpanningTree(t, vs, es) ==
    /\ Range(vs) = TableVertices(t)
    /\ Len(vs) = t.n + t.m
    /\ \A x \in 1..Len(es) :
          \E c \in (1..t.n) \X (1..t.m) :
              es[x].from = <<"S">> \o ToDigits(c[1]) /\ es[x].to = <<"D">> \o ToDigits(c[2])
    /\ Connected(vs, es)
    /\ Acyclic(vs, es)

Called(op) == pc # "run" /\ call.op = op

\* C2 (as claimed): no Table value with unbalanced supply and demand is ever
\* produced, by Table::new or by from_file.
Cex_C2 == table.some => SumSeq(table.supply) = SumSeq(table.demand)

\* C5: on every spanning tree over S1..Sn, D1..Dm, potentials (with i64
\* results and truncating division) returns u of length n and v of length m
\* with u[0] = 0 and u[i] - v[j] = costs[i][j] on every tree edge, and
\* marginal_cost is 0 on every tree edge.
Thm_C5 ==
    /\ (Called("potentials") /\ SpanningTree(table, call.preV, call.preE))
        => /\ call.res = "Ok"
           /\ Len(call.u) = table.n /\ Len(call.v) = table.m
           /\ call.u[1] = 0
           /\ \A x \in 1..Len(call.preE) :
                 LET c == CellOf(table, call.preE[x]) IN
                 call.u[c[1]] - call.v[c[2]] = table.costs.data[c[1]][c[2]]
    /\ (Called("marginal_cost") /\ SpanningTree(table, call.preV, call.preE))
        => /\ call.res = "Ok"
           /\ \A x \in 1..Len(call.preE) :
                 LET c == CellOf(table, call.preE[x]) IN call.mc[c[1]][c[2]] = 0

\* potentials on a spanning tree of a 2 x 2 table whose costs differ
Wit_C5 ==
    /\ Called("potentials") /\ call.res = "Ok"
    /\ table.n = 2 /\ table.m = 2
    /\ SpanningTree(table, call.preV, call.preE)
    /\ table.costs.data[1][1] # table.costs.data[2][2]
    /\ \E j \in 1..2 : call.v[j] # 0

\* C9: potentials and marginal_cost fail with "The graph is not a tree" and
\* produce nothing on every graph that is not a tree, be it connected with a
\* cycle or acyclic and disconnected.
Thm_C9 ==
    ((Called("potentials") \/ Called("marginal_cost"))
        /\ ~(Connected(call.preV, call.preE) /\ Acyclic(call.preV, call.preE)))
    => /\ call.res = "Panic: The graph is not a tree"
       /\ call.u = <<>> /\ call.v = <<>> /\ call.mc = <<>>

\* potentials on a connected graph that contains a cycle
Wit_C9 ==
    /\ Called("potentials")
    /\ Connected(call.preV, call.preE) /\ ~Acyclic(call.preV, call.preE)
    /\ call.res = "Panic: The graph is not a tree"

----------------------------------------------------------------------------
(* The drivers: main.rs (a problem read from a file) and test.rs (a        *)
(* generated problem), followed by the pipeline of test.rs lines 52-60     *)

\* test.rs generate_problem: supply and demand are the row and column sums
\* of a random matrix, so the problem is balanced
generate_problem(costs, matrix) ==
    LET n == Len(matrix)
        m == Len(matrix[1])
    IN  TableNewFn(MatrixNew(costs), new_empty(n, m),
                   [i \in 1..n |-> SumSeq(matrix[i])],
                   [j \in 1..m |-> SumSeq([i \in 1..n |-> matrix[i][j]])])

MainInit ==
    /\ vertices = <<>>
    /\ edges = <<>>
    /\ table = NoTable
    /\ nwc = NoNwc
    /\ solver = NoSolver
    /\ pc = "start"
    /\ call = NoCall

\* main.rs line 10
MainFromFile(lines) ==
    /\ pc = "start"
    /\ \E r \in {from_file(lines)} :
       /\ table' = r.table
       /\ call' = Call("from_file", r.res)
       /\ pc' = IF r.res = "Ok" THEN "loaded" ELSE "panicked"
    /\ UNCHANGED <<vertices, edges, nwc, solver>>

\* test.rs line 51
MainGenerate(costs, matrix) ==
    /\ pc = "start"
    /\ \E r \in {generate_problem(costs, matrix)} :
       /\ table' = r.table
       /\ call' = Call("generate_problem", r.res)
       /\ pc' = IF r.res = "Ok" THEN "loaded" ELSE "panicked"
    /\ UNCHANGED <<vertices, edges, nwc, solver>>

\* north_west_corner is entered
NwcStart ==
    /\ pc = "loaded"
    /\ nwc' = NwcBegin(table)
    /\ pc' = "nwc"
    /\ UNCHANGED <<vertices, edges, table, solver, call>>

\* one iteration of its loop
NwcStep ==
    /\ pc = "nwc"
    /\ NwcGuard(table, nwc)
    /\ \E r \in {NwcIter(table, nwc)} :
       /\ table' = [table EXCEPT !.transport = r.transport]
       /\ nwc' = r.locals
    /\ UNCHANGED <<vertices, edges, solver, pc, call>>

\* the loop condition fails and north_west_corner returns
NwcExit ==
    /\ pc = "nwc"
    /\ ~NwcGuard(table, nwc)
    /\ pc' = "nwc_done"
    /\ UNCHANGED <<vertices, edges, table, nwc, solver, call>>

\* test.rs line 53
MainGetGraph ==
    /\ pc = "nwc_done"
    /\ vertices' = get_graph(table).vertices
    /\ edges' = get_graph(table).edges
    /\ pc' = "loop"
    /\ UNCHANGED <<table, nwc, solver, call>>

\* test.rs lines 54-58: the body of the while loop; unwrap panics on Err.
\* The outcomes are those of every order the shuffle can give.
MainAugment ==
    /\ pc = "loop"
    /\ ~is_connected(vertices, edges)
    /\ \E r \in {k_edge_augmentation(vertices, edges, 1, get_unused_edges(table), p, bld) :
                    p \in Perms(Len(get_unused_edges(table))), bld \in Builds} :
       /\ edges' = r.edges
       /\ call' = [Call("k_edge_augmentation", r.res) EXCEPT
                     !.k = 1, !.cands = get_unused_edges(table), !.preV = vertices,
                     !.preE = edges, !.examined = r.examined]
       /\ pc' = IF r.res = "Ok" THEN "loop" ELSE "panicked"
    /\ UNCHANGED <<vertices, table, nwc, solver>>

\* test.rs line 54: the loop condition fails
MainLoopExit ==
    /\ pc = "loop"
    /\ is_connected(vertices, edges)
    /\ pc' = "connected"
    /\ UNCHANGED <<vertices, edges, table, nwc, solver, call>>

\* test.rs line 60
MainMarginal ==
    /\ pc = "connected"
    /\ \E r \in {marginal_cost(table, vertices, edges)} :
       /\ call' = [Call("marginal_cost", r.res) EXCEPT
                     !.mc = r.mc, !.preV = vertices, !.preE = edges]
       /\ pc' = IF r.res = "Ok" THEN "done" ELSE "panicked"
    /\ UNCHANGED <<vertices, edges, table, nwc, solver>>

\* the problem is chosen
MainStart ==
    \/ /\ pc = "start"
       /\ \E lines \in WellFormedFiles : MainFromFile(lines)
    \/ /\ pc = "start"
       /\ \E n \in Dims, m \in Dims :
             \E costs \in Grids(n, m, 1..MaxCost), matrix \in Grids(n, m, 1..MaxQty) :
                MainGenerate(costs, matrix)

\* the pipeline runs
MainRun ==
    \/ NwcStart
    \/ NwcStep
    \/ NwcExit
    \/ MainGetGraph
    \/ MainAugment
    \/ MainLoopExit
    \/ MainMarginal

MainNext == MainStart \/ MainRun

MainSpec == MainInit /\ [][MainNext]_vars

----------------------------------------------------------------------------
(* Claims about the pipeline, checked under MainSpec *)

AfterNwc == {"nwc_done", "loop", "connected", "done"}

ColumnOf(data, j) == [i \in 1..Len(data) |-> data[i][j]]

NonzeroCells(t) ==
    Cardinality({c \in (1..t.n) \X (1..t.m) : t.transport.data[c[1]][c[2]] # 0})

\* C1: for a balanced table whose transport matrix was all zero, after
\* north_west_corner every row i of the transport matrix sums to supply[i]
\* and every column j sums to demand[j].
Thm_C1 ==
    (table.some /\ pc \in AfterNwc /\ SumSeq(table.supply) = SumSeq(table.demand))
    => /\ \A i \in 1..table.n : SumSeq(table.transport.data[i]) = table.supply[i]
       /\ \A j \in 1..table.m : SumSeq(ColumnOf(table.transport.data, j)) = table.demand[j]

\* north_west_corner has returned on a 2 x 2 table and filled a staircase of
\* three cells
Wit_C1 ==
    /\ pc = "nwc_done" /\ table.n = 2 /\ table.m = 2
    /\ NonzeroCells(table) = 3
    /\ table.supply # table.demand

\* C3: after north_west_corner and get_graph, every call
\* k_edge_augmentation(1, get_unused_edges()) of the loop returns success, the
\* loop terminates, and the graph it ends with is a tree with n + m - 1 edges.
\* Termination is stated by a variant: a pass of the loop that stays in the
\* loop adds exactly one edge, and the loop never holds more than n + m - 1
\* edges, so it is left after at most n + m - 1 passes; no pass panics.
Thm_C3 ==
    /\ [](CalledAug => call.res = "Ok")
    /\ [](pc = "connected"
            => /\ is_tree(vertices, edges)
               /\ Connected(vertices, edges) /\ Acyclic(vertices, edges)
               /\ Len(edges) = table.n + table.m - 1)
    /\ [](pc = "loop" => Len(edges) <= table.n + table.m - 1)
    /\ [][(pc = "loop" /\ pc' = "loop") => Len(edges') = Len(edges) + 1]_vars
    /\ [][pc = "loop" => pc' \in {"loop", "connected"}]_vars

\* the loop has ended after at least two augmentations
Wit_C3 ==
    /\ pc = "connected"
    /\ CalledAug /\ call.res = "Ok"
    /\ Len(edges) >= NonzeroCells(table) + 2

----------------------------------------------------------------------------
(* Matrix::solve run step by step on a system built from a known solution *)

SolveDims == 1..MaxSolveDim

Entries == (-MaxEntry)..MaxEntry

Unknowns == (-MaxX)..MaxX

\* the right-hand side A . x
MatVec(A, x) ==
    [i \in 1..A.rows |-> SumSeq([j \in 1..A.cols |-> A.data[i][j] * x[j]])]

SolveInit ==
    /\ vertices = <<>>
    /\ edges = <<>>
    /\ table = NoTable
    /\ nwc = NoNwc
    /\ solver = NoSolver
    /\ pc = "run"
    /\ call = NoCall

\* solve is entered: lines 123-132
SolveCall(A, xstar) ==
    /\ pc = "run"
    /\ solver' = [A |-> A, b |-> MatVec(A, xstar), xstar |-> xstar,
                  st |-> SolveBegin(A, MatVec(A, xstar))]
    /\ pc' = "solve"
    /\ UNCHANGED <<vertices, edges, table, nwc, call>>

\* one iteration of the elimination loop, lines 133-159
SolveElim ==
    /\ pc = "solve"
    /\ SolveGuard(solver.st)
    /\ \E st \in {ElimStep(solver.st)} :
       /\ solver' = [solver EXCEPT !.st = st]
       /\ IF st.pc = "singular"
          THEN pc' = "panicked" /\ call' = Call("solve", "Panic: Matrix is singular")
          ELSE UNCHANGED <<pc, call>>
    /\ UNCHANGED <<vertices, edges, table, nwc>>

\* the loop condition fails: back-substitution and return, lines 161-169
SolveBack ==
    /\ pc = "solve"
    /\ ~SolveGuard(solver.st)
    /\ \E st \in {SolveFinish(solver.st)} :
       /\ solver' = [solver EXCEPT !.st = st]
       /\ IF st.pc = "solved"
          THEN pc' = "returned" /\ call' = Call("solve", "Ok")
          ELSE pc' = "panicked" /\ call' = Call("solve", "Panic: attempt to divide by zero")
    /\ UNCHANGED <<vertices, edges, table, nwc>>

\* the caller drops the result
SolveReturn ==
    /\ pc = "returned"
    /\ pc' = "run"
    /\ solver' = NoSolver
    /\ call' = NoCall
    /\ UNCHANGED <<vertices, edges, table, nwc>>

SolveNext ==
    \/ /\ pc = "run"
       /\ \E n \in SolveDims :
             \E data \in Grids(n, n, Entries), xstar \in Vectors(n, Unknowns) :
                SolveCall(MatrixNew(data), xstar)
    \/ SolveElim
    \/ SolveBack
    \/ SolveReturn

SolveSpec == SolveInit /\ [][SolveNext]_vars

----------------------------------------------------------------------------
(* Claims about solve, checked under SolveSpec *)

\* the matrix without its first row and its column j
Minor(M, j) ==
    [r \in 1..(Len(M) - 1) |->
        [c \in 1..(Len(M) - 1) |-> M[r + 1][IF c < j THEN c ELSE c + 1]]]

\* the determinant, by expansion along the first row
RECURSIVE Det(_)
Det(M) ==
    IF Len(M) = 1 THEN M[1][1]
    ELSE SumSeq([j \in 1..Len(M) |->
                    (IF j % 2 = 1 THEN 1 ELSE -1) * M[1][j] * Det(Minor(M, j))])

\* C6 (as claimed): for every square integer matrix A with a nonzero
\* determinant and every integer vector x*, solve on A and b = A . x* with
\* the truncating division of i64 returns exactly x*.
Cex_C6 ==
    (Called("solve") /\ Det(solver.A.data) # 0)
    => (call.res = "Ok" /\ solver.st.solution = solver.xstar)

----------------------------------------------------------------------------
(* Graphs built with add_node and add_edge, and asked whether they are cyclic *)

CycLabels == {<<LabelSeq[i]>> : i \in 1..Min(Len(vertices) + 1, MaxCycVertices)}

\* graph.rs is_cyclic
IsCyclic ==
    /\ pc = "run"
    /\ call' = [Call("is_cyclic", IF is_cyclic(vertices, edges) THEN "true" ELSE "false")
                  EXCEPT !.preV = vertices, !.preE = edges]
    /\ pc' = "returned"
    /\ UNCHANGED <<vertices, edges, table, nwc, solver>>

CyclicNext ==
    \/ \E node \in CycLabels : AddNode(node)
    \/ /\ Len(edges) < MaxCycEdges
       /\ \E from \in Range(vertices), to \in Range(vertices), w \in GraphWeights :
             AddEdge(from, to, w)
    \/ IsCyclic
    \/ Return

CyclicSpec == GraphInit /\ [][CyclicNext]_vars

\* C11: on every graph built with add_node and add_edge (edges between listed
\* vertices, no two edges equal as undirected pairs, connected or not),
\* is_cyclic returns true iff the undirected graph contains a cycle.
Thm_C11 ==
    (Called("is_cyclic") /\ NoDuplicateEdge(call.preE)
        /\ Nodes(call.preV, call.preE) = Range(call.preV))
    => ((call.res = "true") <=> ~Acyclic(call.preV, call.preE))

\* is_cyclic has answered true on a graph whose first vertex is isolated and
\* whose cycle, a triangle, lies in another component
Wit_C11 ==
    /\ Called("is_cyclic") /\ call.res = "true"
    /\ NoLoop(call.preE) /\ Len(call.preE) = 3
    /\ Closure(call.preE, {call.preV[1]}) = {call.preV[1]}

----------------------------------------------------------------------------
(* The invariant of the mutations of a Graph, checked under Spec *)

\* two edges join the same unordered pair of vertices
SamePair(a, b) == {a.from, a.to} = {b.from, b.to}

\* the longest prefix of the list new that add_edges can push on es: it ends
\* before the first edge that joins a pair already joined
RECURSIVE Pushable(_, _)
Pushable(es, new) ==
    IF new = <<>> \/ (\E i \in 1..Len(es) : SamePair(es[i], new[1])) THEN <<>>
    ELSE <<new[1]>> \o Pushable(Append(es, new[1]), SubSeq(new, 2, Len(new)))

\* C12: after any sequence of add_node, add_edge, add_edges and
\* k_edge_augmentation calls, failed ones included, no label is twice in the
\* vertex list and no two edges of the edge list join the same unordered pair;
\* add_node with an existing label and add_edge / add_edges with an existing
\* undirected edge fail instead of inserting.
Thm_C12 ==
    /\ \A i, j \in 1..Len(vertices) : i # j => vertices[i] # vertices[j]
    /\ \A i, j \in 1..Len(edges) : i # j => ~SamePair(edges[i], edges[j])
    /\ Called("add_node")
         => IF call.node \in Range(call.preV)
            THEN call.res = "Panic: Node already exists" /\ vertices = call.preV
            ELSE call.res = "Ok" /\ vertices = Append(call.preV, call.node)
    /\ (Called("add_edge") \/ Called("add_edges"))
         => /\ edges = call.preE \o Pushable(call.preE, call.cands)
            /\ IF Pushable(call.preE, call.cands) = call.cands
               THEN call.res = "Ok"
               ELSE call.res = "Panic: Edge already exists"

\* add_edges has pushed an edge and then failed on the next one, which joins
\* two different vertices already joined in the other direction
Wit_C12 ==
    /\ Called("add_edges") /\ call.res = "Panic: Edge already exists"
    /\ Len(call.cands) = 2 /\ Len(edges) = Len(call.preE) + 1
    /\ call.cands[2].from # call.cands[2].to
    /\ \E i \in 1..Len(edges) :
          edges[i].from = call.cands[2].to /\ edges[i].to = call.cands[2].from

\* C15 (as claimed): whenever k_edge_augmentation returns an error
\* (AlreadyConnected, ContainsCycle or InsufficientEdges) the edge list is what
\* it was before the call.
Cex_C15 ==
    (CalledAug /\ call.res \in {"AlreadyConnected", "ContainsCycle", "InsufficientEdges"})
    => edges = call.preE

----------------------------------------------------------------------------
(* The cursors of north_west_corner, checked under MainSpec *)

Balanced(t) == SumSeq(t.supply) = SumSeq(t.demand)

\* a pass of the loop moves no cursor back and moves at least one forward
CursorsAdvance ==
    (pc = "nwc" /\ pc' = "nwc" /\ nwc' # nwc)
    => /\ nwc'.i >= nwc.i /\ nwc'.j >= nwc.j
       /\ nwc'.i + nwc'.j > nwc.i + nwc.j

\* the cursors stay within the table, so the passes are at most n + m
CursorsBounded == pc = "nwc" => (nwc.i <= table.n /\ nwc.j <= table.m)

\* C13 (as claimed): on a balanced table north_west_corner terminates, every
\* iteration advances at least one cursor, and when the loop ends both cursors
\* are exhausted together: i = n and j = m.
Cex_C13 ==
    /\ [][CursorsAdvance]_vars
    /\ [](table.some /\ Balanced(table) => CursorsBounded)
    /\ []((pc = "nwc_done" /\ Balanced(table)) => (nwc.i = table.n /\ nwc.j = table.m))

\* C13 (amended): on a balanced table north_west_corner terminates, every
\* iteration advances at least one cursor and moves none back, and when the
\* loop ends one cursor is exhausted (i = n or j = m), every row from i on has
\* supply 0 and every column from j on has demand 0; when every supply and
\* every demand is positive both cursors are exhausted together.
Thm_C13 ==
    /\ [][CursorsAdvance]_vars
    /\ [](table.some /\ Balanced(table) => CursorsBounded)
    /\ []((pc = "nwc_done" /\ Balanced(table))
            => /\ nwc.i = table.n \/ nwc.j = table.m
               /\ \A i \in (nwc.i + 1)..table.n : table.supply[i] = 0
               /\ \A j \in (nwc.j + 1)..table.m : table.demand[j] = 0
               /\ ((\A i \in 1..table.n : table.supply[i] > 0)
                     /\ (\A j \in 1..table.m : table.demand[j] > 0))
                  => (nwc.i = table.n /\ nwc.j = table.m))

\* the loop has ended on a 2 x 2 table of positive supplies and demands after
\* three passes, the last of which moved both cursors
Wit_C13 ==
    /\ pc = "nwc_done" /\ table.n = 2 /\ table.m = 2
    /\ \A i \in 1..2 : table.supply[i] > 0 /\ table.demand[i] > 0
    /\ NonzeroCells(table) = 3
    /\ nwc.i = 2 /\ nwc.j = 2

----------------------------------------------------------------------------
(* The choice of the pivot, checked under SolveSpec *)

\* the largest absolute value of column j among the rows i..rows-1 of the
\* augmented matrix, the current row i included
RECURSIVE ColMaxFrom(_, _, _)
ColMaxFrom(data, k, j) ==
    IF k > Len(data) THEN 0
    ELSE LET rest == ColMaxFrom(data, k + 1, j)
             x == Abs(data[k][j])
         IN  IF x > rest THEN x ELSE rest

ColMax(st) == ColMaxFrom(st.data, st.i + 1, st.j + 1)

\* a step of the elimination loop is taken
ElimTaken == pc = "solve" /\ SolveGuard(solver.st) /\ solver' # solver

\* after the step row i holds the pivot row: the elimination leaves it alone
PivotOf(st, new) == new.data[st.i + 1][st.j + 1]

\* C14 (as claimed): in every elimination step the pivot row chosen for
\* column j has the largest absolute value of column j among the rows
\* i..rows-1, row i included, and the singular-matrix failure is raised
\* exactly when that largest absolute value is zero.
Cex_C14 ==
    [][ElimTaken
         => /\ Abs(PivotOf(solver.st, solver'.st)) = ColMax(solver.st)
            /\ (solver'.st.pc = "singular") <=> (ColMax(solver.st) = 0)]_vars

====
